---------------------------- MODULE Spec2Model ----------------------------
(***************************************************************************)
(* Model of trainer/util.py, the census feature pipeline written by the    *)
(* notebook self-paced-labs/ai-platform-qwikstart/ai_platform_qwik_start:  *)
(* _download_and_clean_file, download, preprocess, standardize, load_data. *)
(*                                                                         *)
(* A text line is a sequence of symbols.  A symbol is one of the three     *)
(* characters the cleaning pass looks at (" ", "," and ".") or a word: a   *)
(* maximal run of other characters, which the pass copies unchanged.       *)
(*                                                                         *)
(* Four specifications share the module:                                   *)
(*   SpecClean   the per-line cleaning transformation on one input line;   *)
(*   Spec        download(data_dir) as called by load_data, on a file      *)
(*               system, with retrieval failures and interruptions;        *)
(*   SpecEncode  preprocess on the table parsed from one cleaned file;     *)
(*   SpecLoad    load_data after download: the two parsed tables,          *)
(*               preprocess, label split, concat, standardize, re-split.   *)
(***************************************************************************)
EXTENDS Integers, Sequences, FiniteSets, TLC

VARIABLES
    rawLine,      \* SpecClean: the line read from the temporary file
    cleanOut,     \* SpecClean: what the loop body did with it
    cleanPc       \* SpecClean: "read" before the loop body, "done" after

cleanVars == <<rawLine, cleanOut, cleanPc>>

VARIABLES
    createOnOpen, \* Spec: GFile(filename, 'w') creates the file when opened
                  \*       (TRUE) or at its first write (FALSE)
    exists,       \* Spec: which destination files exist in data_dir
    content,      \* Spec: the lines of each destination file
    pending,      \* Spec: lines of the download that its destination file
                  \*       still lacks, per file
    tempExists,   \* Spec: the temporary file of the last retrieval exists
    temp,         \* Spec: the lines of that temporary file
    pc,           \* Spec: position of the running load_data call, or "idle"
    cur,          \* Spec: the destination file download is working on
    pos,          \* Spec: index of the next line of the temporary file
    retrievals,   \* Spec: urlretrieve calls made by the current call, per file
    result,       \* Spec: how the last call that ended, ended
    startExists,  \* Spec: exists when the current call started
    startContent  \* Spec: content when the current call started

fetchVars ==
    <<createOnOpen, exists, content, pending, tempExists, temp, pc, cur, pos,
      retrievals, result, startExists, startContent>>

VARIABLES
    encTable,     \* SpecEncode: the rows read_csv parsed from one file
    encResult,    \* SpecEncode: what preprocess returned, or that it raised
    encPc         \* SpecEncode: "parsed" before preprocess, "done" after

encVars == <<encTable, encResult, encPc>>

VARIABLES
    trainTable,   \* SpecLoad: the rows read_csv parsed from adult.data.csv
    evalTable,    \* SpecLoad: the rows read_csv parsed from adult.test.csv
    loadPc,       \* SpecLoad: position in load_data, "done" or "raised"
    trainX,       \* SpecLoad: train_df, then train_x
    evalX,        \* SpecLoad: eval_df, then eval_x
    trainY,       \* SpecLoad: train_y
    evalY,        \* SpecLoad: eval_y
    allX          \* SpecLoad: all_x

loadVars ==
    <<trainTable, evalTable, loadPc, trainX, evalX, trainY, evalY, allX>>

vars == <<cleanVars, fetchVars, encVars, loadVars>>

----------------------------------------------------------------------------
(* Bounds of the model.                                                    *)

\* Longest line built from single characters of Alphabet.
MaxLineLen == 4

\* Most lines in a remote file.
MaxLines == 2

\* Most rows of the table given to preprocess.
MaxRows == 2

----------------------------------------------------------------------------
(* Module-level constants of util.py.                                      *)

TRAINING_FILE == "adult.data.csv"
EVAL_FILE == "adult.test.csv"

CSV_COLUMNS ==
    << "age", "workclass", "fnlwgt", "education", "education_num",
       "marital_status", "occupation", "relationship", "race", "gender",
       "capital_gain", "capital_loss", "hours_per_week", "native_country",
       "income_bracket" >>

NumColumns == Len(CSV_COLUMNS)

LABEL_COLUMN == "income_bracket"

UNUSED_COLUMNS == {"fnlwgt", "education", "gender"}

\* The categories of each pd.api.types.CategoricalDtype, in declared order.
CATEGORICAL_TYPES ==
    [ workclass |->
        << "Federal-gov", "Local-gov", "Never-worked", "Private",
           "Self-emp-inc", "Self-emp-not-inc", "State-gov", "Without-pay" >>,
      marital_status |->
        << "Divorced", "Married-AF-spouse", "Married-civ-spouse",
           "Married-spouse-absent", "Never-married", "Separated", "Widowed" >>,
      occupation |->
        << "Adm-clerical", "Armed-Forces", "Craft-repair", "Exec-managerial",
           "Farming-fishing", "Handlers-cleaners", "Machine-op-inspct",
           "Other-service", "Priv-house-serv", "Prof-specialty",
           "Protective-serv", "Sales", "Tech-support", "Transport-moving" >>,
      relationship |->
        << "Husband", "Not-in-family", "Other-relative", "Own-child",
           "Unmarried", "Wife" >>,
      race |->
        << "Amer-Indian-Eskimo", "Asian-Pac-Islander", "Black", "Other",
           "White" >>,
      native_country |->
        << "Cambodia", "Canada", "China", "Columbia", "Cuba",
           "Dominican-Republic", "Ecuador", "El-Salvador", "England",
           "France", "Germany", "Greece", "Guatemala", "Haiti",
           "Holand-Netherlands", "Honduras", "Hong", "Hungary", "India",
           "Iran", "Ireland", "Italy", "Jamaica", "Japan", "Laos", "Mexico",
           "Nicaragua", "Outlying-US(Guam-USVI-etc)", "Peru", "Philippines",
           "Poland", "Portugal", "Puerto-Rico", "Scotland", "South", "Taiwan",
           "Thailand", "Trinadad&Tobago", "United-States", "Vietnam",
           "Yugoslavia" >>,
      income_bracket |-> << "<=50K", ">50K" >> ]

----------------------------------------------------------------------------
(* Python string operations used by the cleaning loop.                     *)

\* str.strip(): whitespace, the line terminator included, removed at both
\* ends.
Whitespace == {" ", "\n"}

RECURSIVE LStrip(_)
LStrip(s) ==
    IF s # <<>> /\ Head(s) \in Whitespace THEN LStrip(Tail(s)) ELSE s

RECURSIVE RStrip(_)
RStrip(s) ==
    IF s # <<>> /\ s[Len(s)] \in Whitespace
    THEN RStrip(SubSeq(s, 1, Len(s) - 1))
    ELSE s

Strip(s) == RStrip(LStrip(s))

\* str.replace(', ', ','): left to right, non-overlapping occurrences.
RECURSIVE ReplaceCommaSpace(_)
ReplaceCommaSpace(s) ==
    IF s = <<>> THEN <<>>
    ELSE IF Len(s) >= 2 /\ s[1] = "," /\ s[2] = " "
         THEN <<",">> \o ReplaceCommaSpace(SubSeq(s, 3, Len(s)))
         ELSE <<s[1]>> \o ReplaceCommaSpace(Tail(s))

\* ',' in line
HasComma(s) == \E i \in 1..Len(s) : s[i] = ","

\* line.strip() followed by line.replace(', ', ',')
Normalized(raw) == ReplaceCommaSpace(Strip(raw))

\* A cleaning pass that leaves the last character alone.
NoStripPeriod(s) == s

\* A cleaning pass that removes the last character of every line.
StripLast(s) == SubSeq(s, 1, Len(s) - 1)

\* if line[-1] == '.': line = line[:-1]
StripPeriod(s) ==
    IF s[Len(s)] = "." THEN SubSeq(s, 1, Len(s) - 1) ELSE s

\* A cleaning pass that drops only the empty lines.
KeepsEveryNonEmpty(s) == s # <<>>

\* if not line or ',' not in line: continue
Retained(s) == s # <<>> /\ HasComma(s)

\* A loop body that looks for the final period before trimming the line.
CleanLinePeriodFirst(raw) ==
    LET line == Normalized(IF raw = <<>> THEN raw ELSE StripPeriod(raw))
    IN  IF ~Retained(line)
        THEN [keep |-> FALSE, text |-> <<>>]
        ELSE [keep |-> TRUE, text |-> line \o <<"\n">>]

\* The body of the loop over the temporary file, for one line: keep says
\* whether the line is written, text is what is written (line terminator
\* included).
CleanLine(raw) ==
    LET line == Normalized(raw)
    IN  IF ~Retained(line)
        THEN [keep |-> FALSE, text |-> <<>>]
        ELSE [keep |-> TRUE, text |-> StripPeriod(line) \o <<"\n">>]

\* The whole loop: the lines written for a temporary file's lines, in order.
RECURSIVE CleanFile(_)
CleanFile(lines) ==
    IF lines = <<>> THEN <<>>
    ELSE LET c == CleanLine(Head(lines))
         IN  (IF c.keep THEN <<c.text>> ELSE <<>>) \o CleanFile(Tail(lines))

----------------------------------------------------------------------------
(* Reading a cleaned line back.                                            *)

\* A written line without its terminator.
Body(text) == SubSeq(text, 1, Len(text) - 1)

\* Number of comma-separated fields of a line: commas + 1.
NumFields(s) == Cardinality({i \in 1..Len(s) : s[i] = ","}) + 1

EndsWithPeriod(s) == s # <<>> /\ s[Len(s)] = "."

\* Number of periods at the end of a line.
RECURSIVE TrailingPeriods(_)
TrailingPeriods(s) ==
    IF EndsWithPeriod(s) THEN 1 + TrailingPeriods(SubSeq(s, 1, Len(s) - 1)) ELSE 0

----------------------------------------------------------------------------
(* Input lines of SpecClean.                                               *)

Alphabet == {"a", ",", " ", "."}

ShortLines == UNION {[1..n -> Alphabet] : n \in 0..MaxLineLen}

\* k fields "a" joined by sep.
RECURSIVE Joined(_, _)
Joined(k, sep) ==
    IF k = 0 THEN <<>>
    ELSE IF k = 1 THEN <<"a">>
    ELSE <<"a">> \o sep \o Joined(k - 1, sep)

Separators == {<<",">>, <<",", " ">>, <<",", " ", " ">>}

Suffixes == {<<>>, <<".">>, <<".", ".">>, <<" ", ".">>, <<" ">>}

RecordLines ==
    {Joined(k, sep) \o suf :
        k \in {NumColumns - 1, NumColumns, NumColumns + 1},
        sep \in Separators, suf \in Suffixes}

\* The line of the adult.data file quoted by the specification.
ExampleRaw ==
    << "39", ",", " ", "State-gov", ",", " ", "77516", ",", " ", "Bachelors",
       ",", " ", "13", ",", " ", "Never-married", ",", " ", "Adm-clerical",
       ",", " ", "Not-in-family", ",", " ", "White", ",", " ", "Male", ",",
       " ", "2174", ",", " ", "0", ",", " ", "40", ",", " ", "United-States",
       ",", " ", "<=50K", "." >>

ExampleCleaned ==
    << "39", ",", "State-gov", ",", "77516", ",", "Bachelors", ",", "13", ",",
       "Never-married", ",", "Adm-clerical", ",", "Not-in-family", ",",
       "White", ",", "Male", ",", "2174", ",", "0", ",", "40", ",",
       "United-States", ",", "<=50K", "\n" >>

RawLines == ShortLines \cup RecordLines \cup {ExampleRaw}

----------------------------------------------------------------------------
(* SpecClean: one pass of the loop body of _download_and_clean_file.       *)

Files == {TRAINING_FILE, EVAL_FILE}

\* The variables of Spec while another specification runs.
FetchParked ==
    /\ createOnOpen = TRUE
    /\ exists = [f \in Files |-> FALSE]
    /\ content = [f \in Files |-> <<>>]
    /\ pending = [f \in Files |-> 0]
    /\ tempExists = FALSE
    /\ temp = <<>>
    /\ pc = "idle"
    /\ cur = TRAINING_FILE
    /\ pos = 1
    /\ retrievals = [f \in Files |-> 0]
    /\ result = "none"
    /\ startExists = [f \in Files |-> FALSE]
    /\ startContent = [f \in Files |-> <<>>]

\* The variables of SpecLoad while another specification runs.
LoadParked ==
    /\ trainTable = <<>>
    /\ evalTable = <<>>
    /\ loadPc = "parked"
    /\ trainX = <<>>
    /\ evalX = <<>>
    /\ trainY = <<>>
    /\ evalY = <<>>
    /\ allX = <<>>

\* The variables of SpecEncode while another specification runs.
EncodeParked ==
    /\ encTable = <<>>
    /\ encResult = [ok |-> FALSE, error |-> "", df |-> <<>>]
    /\ encPc = "parked"

\* The variables of SpecClean while another specification runs.
CleanParked ==
    /\ rawLine = <<>>
    /\ cleanOut = [keep |-> FALSE, text |-> <<>>]
    /\ cleanPc = "parked"

InitClean ==
    /\ rawLine \in RawLines
    /\ cleanOut = [keep |-> FALSE, text |-> <<>>]
    /\ cleanPc = "read"
    /\ FetchParked
    /\ EncodeParked
    /\ LoadParked

CleanStep ==
    /\ cleanPc = "read"
    /\ cleanOut' = CleanLine(rawLine)
    /\ cleanPc' = "done"
    /\ UNCHANGED <<rawLine, fetchVars, encVars, loadVars>>

NextClean == CleanStep

SpecClean == InitClean /\ [][NextClean]_vars

Written == cleanPc = "done" /\ cleanOut.keep

Max(a, b) == IF a >= b THEN a ELSE b

\* C1 as claimed: every line written to the destination file has exactly
\* 15 comma-separated fields, and a line with any other number of fields is
\* dropped.
C1_ExactlyFifteenFields ==
    cleanPc = "done" =>
        (cleanOut.keep <=> NumFields(Normalized(rawLine)) = NumColumns)

\* C1 as amended: a line is written exactly when, once trimmed and
\* normalized, it has at least two comma-separated fields (it contains a
\* comma), whatever their number; the written line has the same number of
\* fields.
C1_AtLeastTwoFields ==
    cleanPc = "done" =>
        /\ cleanOut.keep <=> NumFields(Normalized(rawLine)) >= 2
        /\ cleanOut.keep =>
              NumFields(Body(cleanOut.text)) = NumFields(Normalized(rawLine))

\* A line of 14 fields has been written.
C1_Witness ==
    Written /\ NumFields(Body(cleanOut.text)) = NumColumns - 1

\* C2 as claimed: a line written to the destination file does not end with
\* a period, however many periods the input line ends with.
C2_NoTrailingPeriod ==
    Written => ~EndsWithPeriod(Body(cleanOut.text))

\* C2 as amended: a written line ends with one period fewer than the
\* trimmed and normalized input line (with none when that line ends with
\* none), so it ends with a period exactly when the input line ends with
\* two or more.
C2_OnePeriodStripped ==
    Written =>
        /\ TrailingPeriods(Body(cleanOut.text))
              = Max(0, TrailingPeriods(Normalized(rawLine)) - 1)
        /\ Len(Body(cleanOut.text))
              = Len(Normalized(rawLine))
                  - (IF EndsWithPeriod(Normalized(rawLine)) THEN 1 ELSE 0)

\* A line ending with two periods has been written, and still ends with one.
C2_Witness ==
    /\ Written
    /\ TrailingPeriods(Normalized(rawLine)) = 2
    /\ EndsWithPeriod(Body(cleanOut.text))

----------------------------------------------------------------------------
(* Spec: load_data's call of download(DATA_DIR) on a file system.          *)
(* The remote files are an input: each retrieval draws their lines.  A     *)
(* call can end by returning, by an exception (failed retrieval, I/O       *)
(* error, unreadable file) or by the process being interrupted.            *)

\* A line of the adult.test file that holds no record.
JunkLine == <<"|1x3", " ", "Cross", " ", "validator">>

\* A line of two fields between blanks, with a final period.
ShortLine == <<" ", "a", ",", " ", "a", ".", " ">>

FetchLines == {ExampleRaw, JunkLine, ShortLine}

RemoteContents == UNION {[1..n -> FetchLines] : n \in 0..MaxLines}

\* The destination file lacks lines that the cleaning of its download
\* writes.
Truncated(f) == exists[f] /\ pending[f] > 0

InitFetch ==
    /\ createOnOpen \in BOOLEAN
    /\ exists = [f \in Files |-> FALSE]
    /\ content = [f \in Files |-> <<>>]
    /\ pending = [f \in Files |-> 0]
    /\ tempExists = FALSE
    /\ temp = <<>>
    /\ pc = "idle"
    /\ cur = TRAINING_FILE
    /\ pos = 1
    /\ retrievals = [f \in Files |-> 0]
    /\ result = "none"
    /\ startExists = [f \in Files |-> FALSE]
    /\ startContent = [f \in Files |-> <<>>]
    /\ CleanParked
    /\ EncodeParked
    /\ LoadParked

\* load_data calls download(DATA_DIR): makedirs, then the training file.
StartLoad ==
    /\ pc = "idle"
    /\ pc' = "check"
    /\ cur' = TRAINING_FILE
    /\ retrievals' = [f \in Files |-> 0]
    /\ startExists' = exists
    /\ startContent' = content
    /\ UNCHANGED <<cleanVars, encVars, loadVars>>
    /\ UNCHANGED <<createOnOpen, exists, content, pending, tempExists, temp,
                   pos, result>>

\* A download that ignores the cached file.
AlwaysDownload(f) == TRUE

\* if not tf.io.gfile.exists(path)
NeedsDownload(f) == ~exists[f]

\* download goes on to the evaluation file, or returns the two paths.
Advance ==
    IF cur = TRAINING_FILE
    THEN cur' = EVAL_FILE /\ pc' = "check"
    ELSE cur' = cur /\ pc' = "read"

CheckExists ==
    /\ pc = "check"
    /\ IF NeedsDownload(cur)
       THEN pc' = "retrieve" /\ cur' = cur
       ELSE Advance
    /\ UNCHANGED <<cleanVars, encVars, loadVars>>
    /\ UNCHANGED <<createOnOpen, exists, content, pending, tempExists, temp,
                   pos, retrievals, result, startExists, startContent>>

\* urlretrieve(url) succeeds: a new temporary file holds the remote lines.
RetrieveOk ==
    /\ pc = "retrieve"
    /\ \E c \in RemoteContents : temp' = c
    /\ tempExists' = TRUE
    /\ retrievals' = [retrievals EXCEPT ![cur] = @ + 1]
    /\ pc' = "open"
    /\ UNCHANGED <<cleanVars, encVars, loadVars>>
    /\ UNCHANGED <<createOnOpen, exists, content, pending, cur, pos, result,
                   startExists, startContent>>

\* A failed retrieval that has already created the destination file.
RetrieveFailLeavesFile ==
    /\ pc = "retrieve"
    /\ retrievals' = [retrievals EXCEPT ![cur] = @ + 1]
    /\ exists' = [exists EXCEPT ![cur] = TRUE]
    /\ pc' = "idle"
    /\ result' = "retrieval_error"
    /\ UNCHANGED <<cleanVars, encVars, loadVars>>
    /\ UNCHANGED <<createOnOpen, content, pending, tempExists, temp, cur, pos,
                   startExists, startContent>>

\* A failed retrieval that is tried again, up to three times.
RetrieveFailRetries ==
    /\ pc = "retrieve"
    /\ retrievals[cur] < 3
    /\ retrievals' = [retrievals EXCEPT ![cur] = @ + 1]
    /\ UNCHANGED <<cleanVars, encVars, loadVars>>
    /\ UNCHANGED <<createOnOpen, exists, content, pending, tempExists, temp,
                   pc, cur, pos, result, startExists, startContent>>

\* urlretrieve(url) raises: the exception leaves _download_and_clean_file,
\* download and load_data, none of which catches it.
RetrieveFail ==
    /\ pc = "retrieve"
    /\ retrievals' = [retrievals EXCEPT ![cur] = @ + 1]
    /\ pc' = "idle"
    /\ result' = "retrieval_error"
    /\ UNCHANGED <<cleanVars, encVars, loadVars>>
    /\ UNCHANGED <<createOnOpen, exists, content, pending, tempExists, temp,
                   cur, pos, startExists, startContent>>

\* The two with statements: the temporary file opened for reading, the
\* destination for writing.
OpenFiles ==
    /\ pc = "open"
    /\ pc' = "clean"
    /\ pos' = 1
    /\ pending' = [pending EXCEPT ![cur] = Len(CleanFile(temp))]
    /\ IF createOnOpen
       THEN /\ exists' = [exists EXCEPT ![cur] = TRUE]
            /\ content' = [content EXCEPT ![cur] = <<>>]
       ELSE UNCHANGED <<exists, content>>
    /\ UNCHANGED <<cleanVars, encVars, loadVars>>
    /\ UNCHANGED <<createOnOpen, tempExists, temp, cur, retrievals, result,
                   startExists, startContent>>

\* One iteration of the loop over the temporary file.
CleanNext ==
    /\ pc = "clean"
    /\ pos <= Len(temp)
    /\ LET c == CleanLine(temp[pos])
       IN  IF c.keep
           THEN /\ exists' = [exists EXCEPT ![cur] = TRUE]
                /\ content' = [content EXCEPT ![cur] =
                                 (IF exists[cur] THEN @ ELSE <<>>) \o <<c.text>>]
                /\ pending' = [pending EXCEPT ![cur] = @ - 1]
           ELSE UNCHANGED <<exists, content, pending>>
    /\ pos' = pos + 1
    /\ UNCHANGED <<cleanVars, encVars, loadVars>>
    /\ UNCHANGED <<createOnOpen, tempExists, temp, pc, cur,
                   retrievals, result, startExists, startContent>>

\* The loop is over: both files are closed and the temporary file removed.
CloseAndRemove ==
    /\ pc = "clean"
    /\ pos > Len(temp)
    /\ tempExists' = FALSE
    /\ temp' = <<>>
    /\ pos' = 1
    /\ Advance
    /\ UNCHANGED <<cleanVars, encVars, loadVars>>
    /\ UNCHANGED <<createOnOpen, exists, content, pending,
                   retrievals, result, startExists, startContent>>

\* Opening or writing the destination raises (the directory is not
\* writable, the disk is full): the exception leaves load_data before
\* tf.io.gfile.remove(temp_file) is reached.
IOError ==
    /\ pc \in {"open", "clean"}
    /\ pc' = "idle"
    /\ result' = "io_error"
    /\ UNCHANGED <<cleanVars, encVars, loadVars>>
    /\ UNCHANGED <<createOnOpen, exists, content, pending, tempExists, temp,
                   cur, pos, retrievals, startExists, startContent>>

\* download has returned; load_data reads both files and builds its tables
\* (SpecLoad).
ReadOk ==
    /\ pc = "read"
    /\ \A f \in Files : exists[f]
    /\ pc' = "idle"
    /\ result' = "returned"
    /\ UNCHANGED <<cleanVars, encVars, loadVars>>
    /\ UNCHANGED <<createOnOpen, exists, content, pending, tempExists, temp,
                   cur, pos, retrievals, startExists, startContent>>

\* read_csv or preprocess raises.
ReadFail ==
    /\ pc = "read"
    /\ pc' = "idle"
    /\ result' = "read_error"
    /\ UNCHANGED <<cleanVars, encVars, loadVars>>
    /\ UNCHANGED <<createOnOpen, exists, content, pending, tempExists, temp,
                   cur, pos, retrievals, startExists, startContent>>

\* The process is interrupted in the middle of a call; the file system
\* stays as it is.
Interrupt ==
    /\ pc # "idle"
    /\ pc' = "idle"
    /\ result' = "interrupted"
    /\ UNCHANGED <<cleanVars, encVars, loadVars>>
    /\ UNCHANGED <<createOnOpen, exists, content, pending, tempExists, temp,
                   cur, pos, retrievals, startExists, startContent>>

NextFetch ==
    \/ StartLoad
    \/ CheckExists
    \/ RetrieveOk
    \/ RetrieveFail
    \/ OpenFiles
    \/ CleanNext
    \/ CloseAndRemove
    \/ IOError
    \/ ReadOk
    \/ ReadFail
    \/ Interrupt

Spec == InitFetch /\ [][NextFetch]_vars

\* Both destination files existed when the current call started.
BothCached == \A f \in Files : startExists[f]

\* C3: when both destination files exist at the start of a call, the call
\* retrieves nothing and both files keep their content, during the call and
\* after it, call after call.
C3_FetchIdempotent ==
    BothCached =>
        \A f \in Files :
            /\ retrievals[f] = 0
            /\ exists[f]
            /\ content[f] = startContent[f]

\* A call that found both files returned (with two lines in the training
\* file).
C3_Witness ==
    /\ BothCached
    /\ pc = "idle"
    /\ result = "returned"
    /\ Len(content[TRAINING_FILE]) = 2

\* C4: after an interrupted call, download never hands a truncated
\* destination file to load_data as a fetched file: it retrieves and cleans
\* it again.
C4_TruncatedNeverAccepted ==
    (pc = "read" /\ result = "interrupted") =>
        \A f \in Files : ~Truncated(f)

----------------------------------------------------------------------------
(* Tables.  A field of a cleaned line is an integer literal, text, or      *)
(* missing ('?', which read_csv maps to NaN through na_values, or an empty *)
(* field).  A table is a sequence of rows, a row a function from column    *)
(* names to cells.  A data frame adds the order and the dtype of its       *)
(* columns.                                                                *)

Int64(n) == [k |-> "int", n |-> n, s |-> ""]
Text(s) == [k |-> "str", n |-> 0, s |-> s]
NA == [k |-> "na", n |-> 0, s |-> ""]

Range(seq) == {seq[i] : i \in 1..Len(seq)}

ColumnSet == Range(CSV_COLUMNS)

CategoricalColumns == DOMAIN CATEGORICAL_TYPES

\* The columns of the schema that hold numbers.
NumericColumns == ColumnSet \ (CategoricalColumns \cup {"education", "gender"})

\* The dtype pd.read_csv infers for a column: int64 when every field is an
\* integer, float64 when some are missing and the others numbers, object
\* when a field is text.
InferDtype(table, c) ==
    IF \E i \in 1..Len(table) : table[i][c].k = "str" THEN "object"
    ELSE IF \E i \in 1..Len(table) : table[i][c].k = "na" THEN "float64"
    ELSE "int64"

\* pd.read_csv(path, names=_CSV_COLUMNS, na_values='?')
ReadCsv(table) ==
    [cols |-> CSV_COLUMNS,
     dtype |-> [c \in ColumnSet |-> InferDtype(table, c)],
     rows |-> table]

Columns(df) == Range(df.cols)

\* A drop whose list lacks fnlwgt.
DropUnusedButFnlwgt(df) ==
    LET Kept(c) == c \notin {"education", "gender"}
        keep == {c \in Columns(df) : Kept(c)}
    IN  [cols |-> SelectSeq(df.cols, Kept),
         dtype |-> [c \in keep |-> df.dtype[c]],
         rows |-> [i \in 1..Len(df.rows) |-> [c \in keep |-> df.rows[i][c]]]]

\* A drop that also removes the columns holding a missing value.
DropUnusedAndMissing(df) ==
    LET Kept(c) == c \notin UNUSED_COLUMNS /\ df.dtype[c] # "float64"
        keep == {c \in Columns(df) : Kept(c)}
    IN  [cols |-> SelectSeq(df.cols, Kept),
         dtype |-> [c \in keep |-> df.dtype[c]],
         rows |-> [i \in 1..Len(df.rows) |-> [c \in keep |-> df.rows[i][c]]]]

\* dataframe.drop(columns=UNUSED_COLUMNS)
DropUnused(df) ==
    LET Kept(c) == c \notin UNUSED_COLUMNS
        keep == {c \in Columns(df) : Kept(c)}
    IN  [cols |-> SelectSeq(df.cols, Kept),
         dtype |-> [c \in keep |-> df.dtype[c]],
         rows |-> [i \in 1..Len(df.rows) |-> [c \in keep |-> df.rows[i][c]]]]

\* numeric_columns = select_dtypes(['int64']); astype('float32')
WidenIntegers(df) ==
    [df EXCEPT !.dtype =
        [c \in Columns(df) |->
            IF df.dtype[c] = "int64" THEN "float32" ELSE df.dtype[c]]]

\* cat_columns = select_dtypes(['object']).columns
ObjectColumns(df) == {c \in Columns(df) : df.dtype[c] = "object"}

IndexOf(seq, x) == CHOOSE i \in 1..Len(seq) : seq[i] = x

InVocabulary(c, cell) ==
    cell.k = "str" /\ cell.s \in Range(CATEGORICAL_TYPES[c])

\* Codes that count from one.
CategoryCodeFromOne(c, cell) ==
    IF InVocabulary(c, cell) THEN IndexOf(CATEGORICAL_TYPES[c], cell.s) ELSE -1

\* x.astype(_CATEGORICAL_TYPES[x.name]).cat.codes, for one cell: the
\* position of the value among the declared categories, -1 for a value
\* that is none of them.
CategoryCode(c, cell) ==
    IF InVocabulary(c, cell)
    THEN IndexOf(CATEGORICAL_TYPES[c], cell.s) - 1
    ELSE -1

\* The two apply calls over the object columns.
EncodeCategoricals(df) ==
    LET cat == ObjectColumns(df)
    IN  [cols |-> df.cols,
         dtype |-> [c \in Columns(df) |->
                      IF c \in cat THEN "int8" ELSE df.dtype[c]],
         rows |-> [i \in 1..Len(df.rows) |->
                     [c \in Columns(df) |->
                        IF c \in cat
                        THEN Int64(CategoryCode(c, df.rows[i][c]))
                        ELSE df.rows[i][c]]]]

NoFrame == [cols |-> <<>>, dtype |-> <<>>, rows |-> <<>>]

\* preprocess(dataframe): the frame it returns, or the KeyError that
\* _CATEGORICAL_TYPES[x.name] raises for an object column that has no
\* declared categories.
Preprocess(df) ==
    LET widened == WidenIntegers(DropUnused(df))
    IN  IF \E c \in ObjectColumns(widened) : c \notin CategoricalColumns
        THEN [ok |-> FALSE, error |-> "KeyError", df |-> NoFrame]
        ELSE [ok |-> TRUE, error |-> "", df |-> EncodeCategoricals(widened)]

----------------------------------------------------------------------------
(* SpecEncode: preprocess on the table parsed from one cleaned file.       *)

Row(cells) == [c \in ColumnSet |-> cells[IndexOf(CSV_COLUMNS, c)]]

\* The first record of adult.data.
RecordA ==
    Row(<< Int64(39), Text("State-gov"), Int64(77516), Text("Bachelors"),
           Int64(13), Text("Never-married"), Text("Adm-clerical"),
           Text("Not-in-family"), Text("White"), Text("Male"), Int64(2174),
           Int64(0), Int64(40), Text("United-States"), Text("<=50K") >>)

RecordB ==
    Row(<< Int64(52), Text("Self-emp-not-inc"), Int64(209642),
           Text("HS-grad"), Int64(9), Text("Married-civ-spouse"),
           Text("Exec-managerial"), Text("Husband"), Text("White"),
           Text("Male"), Int64(0), Int64(1902), Int64(45),
           Text("Holand-Netherlands"), Text(">50K") >>)

PerturbedColumns == {"age", "workclass", "income_bracket"}

Perturbations == {NA, Text("Unknown"), Int64(7)}

EncodeRecords ==
    {RecordA, RecordB}
        \cup {[RecordA EXCEPT ![c] = v] :
                 c \in PerturbedColumns, v \in Perturbations}

EncodeTables == UNION {[1..n -> EncodeRecords] : n \in 1..MaxRows}

InitEncode ==
    /\ encTable \in EncodeTables
    /\ encResult = [ok |-> FALSE, error |-> "", df |-> NoFrame]
    /\ encPc = "parsed"
    /\ CleanParked
    /\ FetchParked
    /\ LoadParked

PreprocessStep ==
    /\ encPc = "parsed"
    /\ encResult' = Preprocess(ReadCsv(encTable))
    /\ encPc' = "done"
    /\ UNCHANGED <<encTable, cleanVars, fetchVars, loadVars>>

NextEncode == PreprocessStep

SpecEncode == InitEncode /\ [][NextEncode]_vars

Encoded == encPc = "done" /\ encResult.ok

\* C6: preprocess raises no error because of a categorical value, and
\* encodes to -1 every cell of a categorical column whose value is not in
\* the column's declared vocabulary ('?', a missing field, an unknown
\* string).
C6_MissingEncodesMinusOne ==
    encPc = "done" =>
        /\ ~encResult.ok =>
              \E i \in 1..Len(encTable), c \in NumericColumns :
                  encTable[i][c].k = "str"
        /\ encResult.ok =>
              \A i \in 1..Len(encTable), c \in CategoricalColumns :
                  ~InVocabulary(c, encTable[i][c]) =>
                      encResult.df.rows[i][c] = Int64(-1)

\* C7: every cell of a categorical column that holds a value of the
\* column's vocabulary is encoded to the zero-based position of that value
\* in the declared list, whatever the other rows of the table hold.
C7_VocabularyStable ==
    Encoded =>
        \A i \in 1..Len(encTable), c \in CategoricalColumns :
            InVocabulary(c, encTable[i][c]) =>
                LET out == encResult.df.rows[i][c]
                IN  /\ encResult.df.dtype[c] = "int8"
                    /\ out.k = "int"
                    /\ out.n \in 0..(Len(CATEGORICAL_TYPES[c]) - 1)
                    /\ CATEGORICAL_TYPES[c][out.n + 1] = encTable[i][c].s

\* Holand-Netherlands is encoded to 14 and >50K to 1 in a table whose other
\* row holds other values.
C7_Witness ==
    /\ Encoded
    /\ Len(encTable) = 2
    /\ encTable[1] # encTable[2]
    /\ \E i \in 1..2 :
          /\ encTable[i]["native_country"] = Text("Holand-Netherlands")
          /\ encResult.df.rows[i]["native_country"] = Int64(14)
          /\ encResult.df.rows[i]["income_bracket"] = Int64(1)

\* C8: the frame preprocess returns holds none of fnlwgt, education and
\* gender, and every other column of its input.
C8_UnusedColumnsDropped ==
    Encoded =>
        /\ Columns(encResult.df)
              = ColumnSet \ {"fnlwgt", "education", "gender"}
        /\ DOMAIN encResult.df.dtype = Columns(encResult.df)
        /\ \A i \in 1..Len(encTable) :
              DOMAIN encResult.df.rows[i] = Columns(encResult.df)
        /\ Len(encResult.df.rows) = Len(encTable)

\* preprocess returned a frame of twelve columns for a table of two rows.
C8_Witness ==
    /\ Encoded
    /\ Len(encTable) = 2
    /\ Len(encResult.df.cols) = NumColumns - 3
    /\ "age" \in Columns(encResult.df)
    /\ "income_bracket" \in Columns(encResult.df)

\* C9: every column of the frame preprocess returns is float32 when the
\* schema makes it numeric and an integer category code when the schema
\* makes it categorical, also when a numeric column holds a missing value
\* and when a categorical column is missing in every row.
C9_Float32OrCategoryCode ==
    Encoded =>
        \A c \in Columns(encResult.df) :
            /\ c \in NumericColumns => encResult.df.dtype[c] = "float32"
            /\ c \in CategoricalColumns => encResult.df.dtype[c] = "int8"

----------------------------------------------------------------------------
(* load_data after download: label split, concat, standardize, re-split.   *)

\* dataframe.pop(column): the column as a series, removed from the frame.
PopColumn(df, col) ==
    LET keep == Columns(df) \ {col}
        Kept(c) == c # col
    IN  [frame |->
            [cols |-> SelectSeq(df.cols, Kept),
             dtype |-> [c \in keep |-> df.dtype[c]],
             rows |-> [i \in 1..Len(df.rows) |->
                         [c \in keep |-> df.rows[i][c]]]],
         series |->
            [dtype |-> df.dtype[col],
             values |-> [i \in 1..Len(df.rows) |-> df.rows[i][col]]]]

\* The dtype of a column that pd.concat builds from two dtypes.
ConcatDtype(a, b) ==
    IF a = b THEN a
    ELSE IF "float64" \in {a, b} THEN "float64"
    ELSE "float32"

\* pd.concat([train_x, eval_x], keys=['train', 'eval'])
Concat(x, y) ==
    [cols |-> x.cols,
     dtype |-> [c \in Columns(x) |-> ConcatDtype(x.dtype[c], y.dtype[c])],
     rows |-> [i \in 1..(Len(x.rows) + Len(y.rows)) |->
                 IF i <= Len(x.rows) THEN x.rows[i]
                 ELSE y.rows[i - Len(x.rows)]],
     keys |-> [i \in 1..(Len(x.rows) + Len(y.rows)) |->
                 IF i <= Len(x.rows) THEN "train" ELSE "eval"]]

RECURSIVE SumOver(_, _, _)
SumOver(rows, c, upto) ==
    IF upto = 0 THEN 0 ELSE rows[upto][c].n + SumOver(rows, c, upto - 1)

RECURSIVE SumSquares(_, _, _)
SumSquares(rows, c, upto) ==
    IF upto = 0 THEN 0
    ELSE rows[upto][c].n * rows[upto][c].n + SumSquares(rows, c, upto - 1)

\* Statistics taken over the training rows only.
StatsOfTrainRows(df, c) ==
    LET rows == SelectSeq(df.rows, LAMBDA r : r \in Range(trainX.rows))
        N == Len(rows)
        S == SumOver(rows, c, N)
    IN  [n |-> N, sum |-> S, spread |-> N * SumSquares(rows, c, N) - S * S]

\* The statistics of a column of N rows: N, the sum S of its values, and
\* N * sum of squares - S * S, which is N * (N - 1) * std(ddof=1)^2.
Stats(df, c) ==
    LET N == Len(df.rows)
        S == SumOver(df.rows, c, N)
    IN  [n |-> N, sum |-> S, spread |-> N * SumSquares(df.rows, c, N) - S * S]

\* A z-score (v - mean) / std is kept as its numerator scaled by N, that
\* is N * v - S; within a column every cell has the same N and std.  A
\* column of zero std becomes NaN (0 / 0).
ZScore(st, cell) ==
    IF st.spread = 0 THEN NA
    ELSE [k |-> "z", n |-> st.n * cell.n - st.sum, s |-> ""]

\* A standardize that scales every column.
StandardizeAll(df) ==
    [df EXCEPT !.rows =
        [i \in 1..Len(df.rows) |->
            [c \in Columns(df) |-> ZScore(Stats(df, c), df.rows[i][c])]]]

\* standardize(dataframe)
Standardize(df) ==
    [df EXCEPT !.rows =
        [i \in 1..Len(df.rows) |->
            [c \in Columns(df) |->
                IF df.dtype[c] = "float32"
                THEN ZScore(Stats(df, c), df.rows[i][c])
                ELSE df.rows[i][c]]]]

RECURSIVE RowsWithKey(_, _, _)
RowsWithKey(df, key, from) ==
    IF from > Len(df.rows) THEN <<>>
    ELSE (IF df.keys[from] = key THEN <<df.rows[from]>> ELSE <<>>)
             \o RowsWithKey(df, key, from + 1)

\* A cross-section that takes the rows of the other key.
XsOtherKey(df, key) ==
    [cols |-> df.cols, dtype |-> df.dtype,
     rows |-> RowsWithKey(df, IF key = "train" THEN "eval" ELSE "train", 1)]

\* all_x.xs(key)
Xs(df, key) ==
    [cols |-> df.cols, dtype |-> df.dtype, rows |-> RowsWithKey(df, key, 1)]

\* np.asarray(series).astype('float32').reshape((-1, 1)): codes become the
\* floats of the same value, NaN stays NaN.
AsLabelArray(series) ==
    [dtype |-> "float32", values |-> series.values]

----------------------------------------------------------------------------
(* SpecLoad: load_data from the two parsed tables on.                      *)

LoadRecords ==
    { RecordA, RecordB,
      [RecordA EXCEPT !["income_bracket"] = NA],
      [RecordA EXCEPT !["income_bracket"] = Text("Unknown")],
      [RecordA EXCEPT !["age"] = NA],
      [RecordA EXCEPT !["age"] = Text("Unknown")] }

LoadTables == UNION {[1..n -> LoadRecords] : n \in 1..MaxRows}

NoSeries == [dtype |-> "", values |-> <<>>]

InitLoad ==
    /\ trainTable \in LoadTables
    /\ evalTable \in LoadTables
    /\ loadPc = "parsed"
    /\ trainX = NoFrame
    /\ evalX = NoFrame
    /\ trainY = NoSeries
    /\ evalY = NoSeries
    /\ allX = NoFrame
    /\ CleanParked
    /\ FetchParked
    /\ EncodeParked

\* train_df = preprocess(train_df); eval_df = preprocess(eval_df)
PreprocessTables ==
    /\ loadPc = "parsed"
    /\ LET t == Preprocess(ReadCsv(trainTable))
           e == Preprocess(ReadCsv(evalTable))
       IN  IF t.ok /\ e.ok
           THEN /\ trainX' = t.df
                /\ evalX' = e.df
                /\ loadPc' = "preprocessed"
           ELSE /\ loadPc' = "raised"
                /\ UNCHANGED <<trainX, evalX>>
    /\ UNCHANGED <<trainTable, evalTable, trainY, evalY, allX>>
    /\ UNCHANGED <<cleanVars, fetchVars, encVars>>

\* train_x, train_y = train_df, train_df.pop(_LABEL_COLUMN), and the same
\* for eval.
SplitLabels ==
    /\ loadPc = "preprocessed"
    /\ trainX' = PopColumn(trainX, LABEL_COLUMN).frame
    /\ trainY' = PopColumn(trainX, LABEL_COLUMN).series
    /\ evalX' = PopColumn(evalX, LABEL_COLUMN).frame
    /\ evalY' = PopColumn(evalX, LABEL_COLUMN).series
    /\ loadPc' = "split"
    /\ UNCHANGED <<trainTable, evalTable, allX>>
    /\ UNCHANGED <<cleanVars, fetchVars, encVars>>

\* all_x = standardize(pd.concat(...)); train_x, eval_x = all_x.xs(...)
Normalize ==
    /\ loadPc = "split"
    /\ LET all == Standardize(Concat(trainX, evalX))
       IN  /\ allX' = all
           /\ trainX' = Xs(all, "train")
           /\ evalX' = Xs(all, "eval")
    /\ loadPc' = "normalized"
    /\ UNCHANGED <<trainTable, evalTable, trainY, evalY>>
    /\ UNCHANGED <<cleanVars, fetchVars, encVars>>

\* The label arrays are built and the four values returned.
ReshapeLabels ==
    /\ loadPc = "normalized"
    /\ trainY' = AsLabelArray(trainY)
    /\ evalY' = AsLabelArray(evalY)
    /\ loadPc' = "done"
    /\ UNCHANGED <<trainTable, evalTable, trainX, evalX, allX>>
    /\ UNCHANGED <<cleanVars, fetchVars, encVars>>

NextLoad ==
    \/ PreprocessTables
    \/ SplitLabels
    \/ Normalize
    \/ ReshapeLabels

SpecLoad == InitLoad /\ [][NextLoad]_vars

Loaded == loadPc = "done"

Labels == Range(trainY.values) \cup Range(evalY.values)

\* C10: the label arrays that load_data returns hold only 0.0 and 1.0,
\* also for rows whose income_bracket is missing or unknown.
C10_LabelsZeroOrOne ==
    Loaded => Labels \subseteq {Int64(0), Int64(1)}

\* The record of a parsed file that a returned feature row and label come
\* from: the label is the record's encoded label, every category code is
\* the record's code, and every z-score is the one of the record's raw
\* value under the statistics pooled over both files.
FromRecord(x, y, table, i) ==
    LET pre == Preprocess(ReadCsv(table)).df
        N == Len(trainTable) + Len(evalTable)
        S(c) == SumOver(trainTable, c, Len(trainTable))
                    + SumOver(evalTable, c, Len(evalTable))
    IN  /\ y = pre.rows[i][LABEL_COLUMN]
        /\ \A c \in DOMAIN x :
              \/ x[c] = pre.rows[i][c]
              \/ x[c].k = "z" /\ x[c].n = N * table[i][c].n - S(c)
              \/ x[c] = NA /\ allX.dtype[c] = "float32"

\* C11: load_data returns as many feature rows as labels for each file,
\* and row i of train_x (eval_x) and label i of train_y (eval_y) come from
\* record i of the training (evaluation) file; no row changes split or
\* position.
C11_RowsAligned ==
    Loaded =>
        /\ Len(trainX.rows) = Len(trainTable)
        /\ Len(trainY.values) = Len(trainTable)
        /\ Len(evalX.rows) = Len(evalTable)
        /\ Len(evalY.values) = Len(evalTable)
        /\ \A i \in 1..Len(trainTable) :
              FromRecord(trainX.rows[i], trainY.values[i], trainTable, i)
        /\ \A i \in 1..Len(evalTable) :
              FromRecord(evalX.rows[i], evalY.values[i], evalTable, i)

\* Two different training records and a third evaluation record were
\* loaded, and the returned rows differ in a z-score and in the label.
C11_Witness ==
    /\ Loaded
    /\ trainTable = <<RecordA, RecordB>>
    /\ evalTable = <<RecordB>>
    /\ trainX.rows[1]["age"].k = "z"
    /\ trainX.rows[1]["age"] # trainX.rows[2]["age"]
    /\ trainY.values = <<Int64(0), Int64(1)>>
    /\ evalY.values = <<Int64(1)>>
    /\ evalX.rows[1] = trainX.rows[2]

ScalingDone == loadPc \in {"normalized", "done"}

PooledN == Len(trainTable) + Len(evalTable)

PooledSum(c) ==
    SumOver(trainTable, c, Len(trainTable))
        + SumOver(evalTable, c, Len(evalTable))

\* The cell of a scaled column is the z-score of the raw value v under
\* the count and sum of all rows of both files.
PooledScore(cell, v, c) ==
    cell.k = "z" /\ cell.n = PooledN * v - PooledSum(c)

\* C12: every column that standardize scales gets, in training rows and in
\* evaluation rows alike, the z-score under the mean and standard
\* deviation of all rows of the concatenated table: the scaled values sum
\* to zero over both splits, and a training row and an evaluation row of
\* equal raw value get equal scaled values.
C12_PooledStatistics ==
    ScalingDone =>
        \A c \in {d \in Columns(allX) : allX.dtype[d] = "float32"} :
            \/ \A k \in 1..Len(allX.rows) : allX.rows[k][c] = NA
            \/ /\ \A i \in 1..Len(trainTable) :
                      PooledScore(trainX.rows[i][c], trainTable[i][c].n, c)
                /\ \A j \in 1..Len(evalTable) :
                      PooledScore(evalX.rows[j][c], evalTable[j][c].n, c)
                /\ SumOver(allX.rows, c, Len(allX.rows)) = 0
                /\ \A m \in 1..Len(trainTable), n \in 1..Len(evalTable) :
                      trainTable[m][c] = evalTable[n][c]
                          => trainX.rows[m][c] = evalX.rows[n][c]

\* Age 39 in the training file and ages 52 and 39 in the evaluation file:
\* both rows of age 39 get 3 * 39 - 130.
C12_Witness ==
    /\ Loaded
    /\ trainTable = <<RecordA>>
    /\ evalTable = <<RecordB, RecordA>>
    /\ trainX.rows[1]["age"] = [k |-> "z", n |-> -13, s |-> ""]
    /\ evalX.rows[2]["age"] = trainX.rows[1]["age"]
    /\ evalX.rows[1]["age"] = [k |-> "z", n |-> 26, s |-> ""]

\* C13: standardize never returns a table in which a float32 column holds
\* NaN or Inf; a column of zero standard deviation makes it fail instead.
C13_ZeroVarianceFails ==
    ScalingDone =>
        \A c \in Columns(allX) :
            allX.dtype[c] = "float32" =>
                \A i \in 1..Len(allX.rows) : allX.rows[i][c] # NA

\* The feature columns, in the order of _CSV_COLUMNS.
FeatureColumns ==
    SelectSeq(CSV_COLUMNS,
              LAMBDA c : c \notin UNUSED_COLUMNS /\ c # LABEL_COLUMN)

\* C14: the two feature tables hold the same columns in the same order
\* from preprocess on, whatever the two files hold, and load_data returns
\* both with the eleven feature columns in schema order.
C14_SameColumns ==
    /\ loadPc \in {"preprocessed", "split", "normalized", "done"}
           => trainX.cols = evalX.cols
    /\ Loaded => trainX.cols = FeatureColumns /\ evalX.cols = FeatureColumns

\* The training file has a missing age, the evaluation file has none and
\* another number of rows; both tables are returned with eleven columns.
C14_Witness ==
    /\ Loaded
    /\ trainTable = <<[RecordA EXCEPT !["age"] = NA]>>
    /\ evalTable = <<RecordA, RecordB>>
    /\ Len(trainX.cols) = 11
    /\ trainX.cols[1] = "age"
    /\ evalX.cols[11] = "native_country"

----------------------------------------------------------------------------
(* The cleaning pass, line by line.                                        *)

\* What the destination file must hold for one line of the temporary file.
ExpectedLines(raw) ==
    CASE raw = ExampleRaw -> <<ExampleCleaned>>
      [] raw = JunkLine -> <<>>
      [] raw = ShortLine -> << <<"a", ",", "a", "\n">> >>

RECURSIVE ExpectedFile(_)
ExpectedFile(lines) ==
    IF lines = <<>> THEN <<>>
    ELSE ExpectedLines(Head(lines)) \o ExpectedFile(Tail(lines))

LinesWritten(f) == IF exists[f] THEN content[f] ELSE <<>>

\* C15: at every point of the cleaning loop the destination file holds,
\* in input order, the cleaned form of each line read so far: the quoted
\* adult.data line comma-normalized and without its period, a line
\* between blanks trimmed before its period is removed, a line without a
\* comma dropped, each written line ending in one line terminator.
C15_CleanedInOrder ==
    pc = "clean" =>
        LinesWritten(cur) = ExpectedFile(SubSeq(temp, 1, pos - 1))

\* Both lines of a temporary file have been cleaned and written in order.
C15_Witness ==
    /\ pc = "clean"
    /\ temp = <<ShortLine, ExampleRaw>>
    /\ pos = 3
    /\ content[cur] = << <<"a", ",", "a", "\n">>, ExampleCleaned >>

----------------------------------------------------------------------------
(* The frame of standardize.                                               *)

\* C16: standardize returns its input table with the same rows in the same
\* number, the same columns and dtypes, and every column whose dtype is
\* not float32 (the category codes) unchanged value for value.
C16_OnlyFloat32Scaled ==
    [][loadPc = "split" /\ loadPc' = "normalized" =>
          LET in == Concat(trainX, evalX)
          IN  /\ Len(allX'.rows) = Len(in.rows)
              /\ allX'.cols = in.cols
              /\ allX'.dtype = in.dtype
              /\ \A c \in Columns(in) :
                    in.dtype[c] # "float32" =>
                        \A i \in 1..Len(in.rows) :
                            allX'.rows[i][c] = in.rows[i][c]]_vars

\* Three rows were standardized: age was scaled, the workclass codes 6, 5
\* and 6 were not.
C16_Witness ==
    /\ ScalingDone
    /\ Len(allX.rows) = 3
    /\ allX.dtype["workclass"] = "int8"
    /\ allX.rows[1]["age"].k = "z"
    /\ allX.rows[1]["workclass"] = Int64(6)
    /\ allX.rows[2]["workclass"] = Int64(5)
    /\ allX.rows[3]["workclass"] = Int64(6)

----------------------------------------------------------------------------
(* The temporary file and the retrievals of one call.                      *)

\* The last call ended by a return or by an exception, not by the process
\* being interrupted.
Ended ==
    /\ pc = "idle"
    /\ result \in {"returned", "retrieval_error", "io_error", "read_error"}

\* C17: however a call ends, by returning or by raising, the temporary
\* file that urlretrieve created does not exist afterwards.
C17_TempRemoved ==
    Ended => ~tempExists

\* C18: within one call each remote file is requested at most once, and a
\* call that ended by a failed retrieval made no request after the failed
\* one: one request for the file that failed, and none for the evaluation
\* file when the training file failed.
C18_NoRetry ==
    /\ \A f \in Files : retrievals[f] <= 1
    /\ (pc = "idle" /\ result = "retrieval_error") =>
          /\ retrievals[cur] = 1
          /\ cur = TRAINING_FILE => retrievals[EVAL_FILE] = 0

\* The training file was retrieved and cleaned, then the retrieval of the
\* evaluation file failed and ended the call.
C18_Witness ==
    /\ pc = "idle"
    /\ result = "retrieval_error"
    /\ cur = EVAL_FILE
    /\ retrievals[TRAINING_FILE] = 1
    /\ retrievals[EVAL_FILE] = 1
    /\ ~exists[EVAL_FILE]

----------------------------------------------------------------------------
(* Cleaning a line that the cleaning pass has written.                     *)

\* C19 as claimed: cleaning a line that the cleaning pass has written
\* writes the same line again, for every input line.
C19_CleanIdempotent ==
    Written => CleanLine(cleanOut.text) = cleanOut

\* A written line that holds no ', ' and ends neither in a period nor in a
\* blank.
Settled(text) ==
    LET line == Body(text)
    IN  /\ \A i \in 1..(Len(line) - 1) : ~(line[i] = "," /\ line[i + 1] = " ")
        /\ line[Len(line)] \notin {".", " "}

\* C19, amended: cleaning a written line writes the same line again when
\* the written line holds no ', ' and ends neither in '.' nor in a blank;
\* one pass does not settle a line with two blanks after a comma, with two
\* final periods or with a blank before its final period.
C19_SettledIdempotent ==
    Written /\ Settled(cleanOut.text) => CleanLine(cleanOut.text) = cleanOut

\* The quoted adult.data line was cleaned, and cleaning the result again
\* gives the quoted cleaned line.
C19_Witness ==
    /\ Written
    /\ rawLine = ExampleRaw
    /\ Settled(cleanOut.text)
    /\ CleanLine(cleanOut.text) = [keep |-> TRUE, text |-> ExampleCleaned]

----------------------------------------------------------------------------
(* The two existence checks of download.                                   *)

\* download has returned its two paths to load_data.
Returned == pc = "read"

\* A file that existed when the call started is not retrieved and keeps
\* its content; the evaluation file is dealt with after the training
\* file; a file that was missing has been retrieved once when download
\* returns.
OnlyMissingRetrieved ==
    /\ \A f \in Files :
          startExists[f] =>
              retrievals[f] = 0 /\ exists[f] /\ content[f] = startContent[f]
    /\ retrievals[EVAL_FILE] = 1 =>
          startExists[TRAINING_FILE] \/ retrievals[TRAINING_FILE] = 1
    /\ Returned => \A f \in Files : ~startExists[f] => retrievals[f] = 1

\* C20 as claimed: the two files are checked independently, training
\* first; only a missing file is retrieved and cleaned and an existing one
\* is left unchanged; when download returns, both files exist.
C20_BothExistOnReturn ==
    /\ OnlyMissingRetrieved
    /\ Returned => \A f \in Files : exists[f]

\* What holds of C20 in every call: only a missing file is retrieved, and
\* when download returns a file is missing only if it was missing at the
\* start, was retrieved, and is created by its first write; a file created
\* that way is never empty.
MissingOnlyRetrieved ==
    /\ OnlyMissingRetrieved
    /\ Returned =>
          \A f \in Files :
              ~exists[f] =>
                  ~createOnOpen /\ ~startExists[f] /\ retrievals[f] = 1
    /\ \A f \in Files :
          (exists[f] /\ ~createOnOpen /\ pending[f] = 0) => content[f] # <<>>

\* The training file was cached and the evaluation file missing: download
\* has returned after retrieving and cleaning the evaluation file only.
OneCachedOneRetrieved ==
    /\ Returned
    /\ startExists[TRAINING_FILE]
    /\ ~startExists[EVAL_FILE]
    /\ retrievals[TRAINING_FILE] = 0
    /\ retrievals[EVAL_FILE] = 1
    /\ content[TRAINING_FILE] = startContent[TRAINING_FILE]
    /\ content[EVAL_FILE] = <<ExampleCleaned>>

=============================================================================
